---------------------------- MODULE Spec2Model ----------------------------
(***************************************************************************)
(* Model of lib/transform.js: the IIIF Image API parameter validators and  *)
(* the Operations interpreter that turns region / size / rotation /        *)
(* quality / format strings into calls on a sharp pipeline.                *)
(*                                                                         *)
(* Strings are sequences of one-character strings.  JavaScript numbers are *)
(* records [t, n, d]: the rational n/d (d a power of ten, n/d in lowest    *)
(* decimal form), NaN, or null.                                            *)
(***************************************************************************)
EXTENDS Integers, Sequences, FiniteSets, TLC

VARIABLES heap, ops, last, prev, budget

vars == <<heap, ops, last, prev, budget>>

-----------------------------------------------------------------------------
(* Characters and a small regular-expression matcher (JavaScript RegExp,    *)
(* no flags).  A regular expression is a tagged tuple.                      *)

Digit == {"0", "1", "2", "3", "4", "5", "6", "7", "8", "9"}

\* '.' in a RegExp without the s flag matches any character but these
LineTerminators == {"\n", "\r"}

Lit(w) == <<"lit", w>>
AnyChar == <<"any">>
DigitRe == <<"class", Digit>>
Class(S) == <<"class", S>>
Plus(r) == <<"plus", r>>
Opt(r) == <<"opt", r>>
Cat(rs) == <<"cat", rs>>
Alt(rs) == <<"alt", rs>>

RECURSIVE Ends(_, _, _)
\* the set of positions j such that re matches s[i .. j-1]
Ends(re, s, i) ==
  CASE re[1] = "lit" ->
         IF i + Len(re[2]) - 1 <= Len(s) /\ SubSeq(s, i, i + Len(re[2]) - 1) = re[2]
         THEN {i + Len(re[2])} ELSE {}
    [] re[1] = "any" ->
         IF i <= Len(s) /\ s[i] \notin LineTerminators THEN {i + 1} ELSE {}
    [] re[1] = "class" ->
         IF i <= Len(s) /\ s[i] \in re[2] THEN {i + 1} ELSE {}
    [] re[1] = "opt" -> {i} \cup Ends(re[2], s, i)
    [] re[1] = "plus" ->
         LET one == Ends(re[2], s, i)
         IN  one \cup UNION {Ends(re, s, j) : j \in one \ {i}}
    [] re[1] = "cat" ->
         IF Len(re[2]) = 0 THEN {i}
         ELSE UNION {Ends(Cat(Tail(re[2])), s, j) : j \in Ends(Head(re[2]), s, i)}
    [] re[1] = "alt" -> UNION {Ends(re[2][k], s, i) : k \in DOMAIN re[2]}

\* new RegExp('^(' + re + ')$').test(s)
TestAnchored(re, s) == (Len(s) + 1) \in Ends(re, s, 1)

SetMax(S) == CHOOSE x \in S : \A y \in S : y <= x

\* s.match(/^prefix(re)/) with a greedy re: the capture group $1, or <<>>
\* together with matched = FALSE when there is no match
MatchPrefixCapture(prefix, re, s) ==
  LET from == Ends(Lit(prefix), s, 1)
      to   == UNION {Ends(re, s, j) : j \in from}
  IN  IF to = {} THEN [matched |-> FALSE, cap |-> <<>>]
      ELSE [matched |-> TRUE, cap |-> SubSeq(s, Len(prefix) + 1, SetMax(to) - 1)]

-----------------------------------------------------------------------------
(* Validators (transform.js lines 4-30)                                     *)

\* Integer RegEx  '\\d+'
IR == Plus(DigitRe)

\* the float grammar of the documentation: digits, or digits '.' digits
FRDeclared == Cat(<<IR, Opt(Cat(<<Lit(<<".">>), IR>>))>>)

\* Float RegEx  '\\d+(?:\.\\d+)?' : inside the string literal '\.' is a
\* useless escape, so the pattern text is \d+(?:.\d+)? and '.' is a wildcard
FR == Cat(<<IR, Opt(Cat(<<AnyChar, IR>>))>>)

Comma == Lit(<<",">>)
Bang == Lit(<<"!">>)
PctPrefix == <<"p", "c", "t", ":">>

W_color == <<"c", "o", "l", "o", "r">>
W_gray == <<"g", "r", "a", "y">>
W_bitonal == <<"b", "i", "t", "o", "n", "a", "l">>
W_default == <<"d", "e", "f", "a", "u", "l", "t">>
W_jpg == <<"j", "p", "g">>
W_tif == <<"t", "i", "f">>
W_gif == <<"g", "i", "f">>
W_png == <<"p", "n", "g">>
W_webp == <<"w", "e", "b", "p">>
W_full == <<"f", "u", "l", "l">>
W_square == <<"s", "q", "u", "a", "r", "e">>
W_max == <<"m", "a", "x">>

Kinds == {"region", "size", "rotation", "quality", "format"}

\* the Validators table with float pattern F
ValidatorsWith(F) ==
  [quality  |-> Alt(<<Lit(W_color), Lit(W_gray), Lit(W_bitonal), Lit(W_default)>>),
   format   |-> Alt(<<Lit(W_jpg), Lit(W_tif), Lit(W_gif), Lit(W_png), Lit(W_webp)>>),
   region   |-> Alt(<<Lit(W_full), Lit(W_square),
                      Cat(<<Lit(PctPrefix), F, Comma, F, Comma, F, Comma, F>>),
                      Cat(<<IR, Comma, IR, Comma, IR, Comma, IR>>)>>),
   size     |-> Alt(<<Lit(W_full), Lit(W_max),
                      Cat(<<Lit(PctPrefix), F>>),
                      Cat(<<IR, Comma>>),
                      Cat(<<Comma, IR>>),
                      Cat(<<Opt(Bang), IR, Comma, IR>>)>>),
   rotation |-> Cat(<<Opt(Bang), F>>)]

Validators == ValidatorsWith(FR)

validator(type) == Validators[type]

\* TRUE when validate returns true, FALSE when it throws IIIFError
validate(type, v) == TestAnchored(validator(type), v)

\* membership in the documented grammar of a kind
InDeclaredGrammar(type, v) == TestAnchored(ValidatorsWith(FRDeclared)[type], v)

-----------------------------------------------------------------------------
(* JavaScript values: numbers (exact decimals), NaN, null, undefined        *)

RECURSIVE Norm(_, _)
\* the number n/d, d a power of ten, without trailing fraction zeros
Norm(n, d) ==
  IF d > 1 /\ n % 10 = 0 THEN Norm(n \div 10, d \div 10)
  ELSE [t |-> "num", n |-> n, d |-> d]

JsInt(n) == [t |-> "num", n |-> n, d |-> 1]
NaN == [t |-> "nan", n |-> 0, d |-> 1]
Null == [t |-> "null", n |-> 0, d |-> 1]
Undefined == [t |-> "undefined", n |-> 0, d |-> 1]

isNaN(x) == x.t \in {"nan", "undefined"}

\* x === 0
IsZero(x) == x.t = "num" /\ x.n = 0

DigitSeq == <<"0", "1", "2", "3", "4", "5", "6", "7", "8", "9">>
DigitVal(c) == (CHOOSE k \in 1..10 : DigitSeq[k] = c) - 1

RECURSIVE DigitsValue(_)
DigitsValue(s) ==
  IF s = <<>> THEN 0
  ELSE 10 * DigitsValue(SubSeq(s, 1, Len(s) - 1)) + DigitVal(s[Len(s)])

RECURSIVE Pow10(_)
Pow10(k) == IF k = 0 THEN 1 ELSE 10 * Pow10(k - 1)

\* Number(s) for a string s.  Covers the empty string, digit runs and
\* decimal literals with a '.'; every other string over the characters used
\* here (no exponent, sign, radix prefix or white space) is NaN.
Number(s) ==
  IF s = <<>> THEN JsInt(0)
  ELSE IF TestAnchored(IR, s) THEN JsInt(DigitsValue(s))
  ELSE IF TestAnchored(Alt(<<Cat(<<IR, Lit(<<".">>), Opt(IR)>>),
                             Cat(<<Lit(<<".">>), IR>>)>>), s)
       THEN LET p    == CHOOSE i \in 1..Len(s) : s[i] = "."
                ip   == SubSeq(s, 1, p - 1)
                fp   == SubSeq(s, p + 1, Len(s))
            IN  Norm(DigitsValue(ip \o fp), Pow10(Len(fp)))
       ELSE NaN

RECURSIVE ToDigits(_)
\* `${n}` for a non-negative integer n
ToDigits(n) ==
  IF n < 10 THEN <<DigitSeq[n + 1]>>
  ELSE ToDigits(n \div 10) \o <<DigitSeq[(n % 10) + 1]>>

RECURSIVE Split(_)
\* s.split(/\s*,\s*/) ; no string that reaches a split holds white space
Split(s) ==
  IF \A i \in 1..Len(s) : s[i] # ","
  THEN <<s>>
  ELSE LET p == CHOOSE i \in 1..Len(s) : s[i] = "," /\ \A j \in 1..(i - 1) : s[j] # ","
       IN  <<SubSeq(s, 1, p - 1)>> \o Split(SubSeq(s, p + 1, Len(s)))

\* v.replace(/^!/, '')
StripBang(v) == IF Len(v) > 0 /\ v[1] = "!" THEN Tail(v) ELSE v

\* x / 100.0
Div100(x) == IF x.t = "num" THEN Norm(x.n, x.d * 100) ELSE NaN

\* w * x for an integer w
Times(w, x) == IF x.t = "num" THEN Norm(w * x.n, x.d) ELSE NaN

\* Math.round(x), x >= 0: halves round up
MathRound(x) == IF x.t = "num" THEN JsInt((2 * x.n + x.d) \div (2 * x.d)) ELSE NaN

\* element k of a destructured array
At(arr, k) == IF k <= Len(arr) THEN arr[k] ELSE Undefined

Min(a, b) == IF a <= b THEN a ELSE b
Abs(a) == IF a < 0 THEN -a ELSE a

-----------------------------------------------------------------------------
(* The sharp pipeline: the calls made on it, in order, and the two options  *)
(* region reads back.                                                       *)

\* Sharp({ limitInputPixels: false })
Sharp == [directives |-> <<>>, widthPre |-> -1, heightPre |-> -1]

Directive(op, args, fit, fmt) == [op |-> op, args |-> args, fit |-> fit, fmt |-> fmt]

Emit(p, d) == [p EXCEPT !.directives = Append(@, d)]

\* what a method returns (err = "none") or the pipeline it leaves when it throws
Outcome(p, err) == [p |-> p, err |-> err]

\* sharp accepts an extract parameter that is an integer >= 0
ExtractParamOk(x) == x.t = "num" /\ x.d = 1 /\ x.n >= 0

\* options.width / options.height are set: a resize was requested
ResizeExpected(p) == \E k \in DOMAIN p.directives : p.directives[k].op = "resize"

\* pipeline.extract(params): checks and stores left, top, width, height in
\* that order and throws at the first parameter that is not an integer >= 0;
\* before any resize the rectangle is the pre-resize one (widthPre, heightPre),
\* after a resize it is the post-resize one
SharpExtract(p, params) ==
  LET pre == ~ResizeExpected(p)
  IN  IF ~ExtractParamOk(params.left) \/ ~ExtractParamOk(params.top)
           \/ ~ExtractParamOk(params.width)
      THEN Outcome(p, "SharpError")
      ELSE IF ~ExtractParamOk(params.height)
      THEN Outcome(IF pre THEN [p EXCEPT !.widthPre = params.width.n] ELSE p,
                   "SharpError")
      ELSE Outcome(
             Emit(IF pre THEN [p EXCEPT !.widthPre = params.width.n,
                                        !.heightPre = params.height.n]
                  ELSE p,
                  Directive("extract",
                            <<params.left, params.top, params.width, params.height>>,
                            "", <<>>)),
             "none")

SharpResize(p, params) ==
  Emit(p, Directive("resize", <<params.width, params.height>>, params.fit, <<>>))

SharpFlop(p) == Emit(p, Directive("flop", <<>>, "", <<>>))
SharpRotate(p, value) == Emit(p, Directive("rotate", <<value>>, "", <<>>))
SharpGrayscale(p) == Emit(p, Directive("grayscale", <<>>, "", <<>>))
SharpThreshold(p) == Emit(p, Directive("threshold", <<>>, "", <<>>))
SharpToFormat(p, v) == Emit(p, Directive("toFormat", <<>>, "", v))

-----------------------------------------------------------------------------
(* Operations: the private helpers                                          *)

\* offset of the square crop
SquareOffset(width, height) == Abs((width - height) \div 2)

_regionXYWH(p, v, isString) ==
  LET arr    == IF isString THEN [k \in 1..Len(Split(v)) |-> Number(Split(v)[k])] ELSE v
      params == [left |-> At(arr, 1), top |-> At(arr, 2),
                 width |-> At(arr, 3), height |-> At(arr, 4)]
  IN  IF IsZero(params.width) \/ IsZero(params.height)
      THEN Outcome(p, "InvalidRegion")
      ELSE SharpExtract(p, params)

_regionSquare(p, dims) ==
  IF dims.width # dims.height
  THEN LET side   == Min(dims.width, dims.height)
           offset == SquareOffset(dims.width, dims.height)
           params == IF dims.width > dims.height
                     THEN [left |-> JsInt(offset), top |-> JsInt(0),
                           width |-> JsInt(side), height |-> JsInt(side)]
                     ELSE [left |-> JsInt(0), top |-> JsInt(offset),
                           width |-> JsInt(side), height |-> JsInt(side)]
       IN  SharpExtract(p, params)
  ELSE Outcome(p, "none")

_regionPct(p, v, dims) ==
  LET parts == Split(v)
      frac  == [k \in 1..Len(parts) |-> Div100(Number(parts[k]))]
      x     == MathRound(Times(dims.width, At(frac, 1)))
      w     == MathRound(Times(dims.width, At(frac, 3)))
      y     == MathRound(Times(dims.height, At(frac, 2)))
      h     == MathRound(Times(dims.height, At(frac, 4)))
  IN  _regionXYWH(p, <<x, y, w, h>>, FALSE)

\* every caller passes a string
_sizeWH(p, v) ==
  LET fit    == IF v[1] = "!" THEN "inside" ELSE "cover"
      parts  == Split(StripBang(v))
      arr    == [k \in 1..Len(parts) |->
                   IF parts[k] = <<>> THEN Null ELSE Number(parts[k])]
      params == [fit |-> fit, width |-> At(arr, 1), height |-> At(arr, 2)]
  IN  IF IsZero(params.width) \/ IsZero(params.height)
      THEN Outcome(p, "InvalidSize")
      ELSE Outcome(SharpResize(p, params), "none")

_sizePct(p, v, dims) ==
  LET pct == Number(v)
  IN  IF isNaN(pct) \/ pct.n <= 0
      THEN Outcome(p, "InvalidSize")
      ELSE LET width == MathRound(Times(dims.width, Div100(pct)))
           IN  _sizeWH(p, ToDigits(width.n) \o <<",">>)

\* ifPositive without its test: the pipeline option is taken as it is
ifPositiveUnguarded(a, b) == a

\* const ifPositive = (a, b) => a > 0 ? a : b
ifPositive(a, b) == IF a > 0 THEN a ELSE b

-----------------------------------------------------------------------------
(* Operations: the public methods, as functions of the pipeline, the dims   *)
(* object's value and the parameter string                                  *)

region(p, dims, v) ==
  LET m   == MatchPrefixCapture(PctPrefix, Plus(Class(Digit \cup {","})), v)
      out == IF ~validate("region", v) THEN Outcome(p, "InvalidParameter")
             ELSE IF v = W_full THEN Outcome(p, "none")
             ELSE IF v = W_square THEN _regionSquare(p, dims)
             ELSE IF m.matched THEN _regionPct(p, m.cap, dims)
             ELSE _regionXYWH(p, v, TRUE)
  IN  [p    |-> out.p,
       err  |-> out.err,
       dims |-> IF out.err = "none"
                THEN [width  |-> ifPositive(out.p.widthPre, dims.width),
                      height |-> ifPositive(out.p.heightPre, dims.height)]
                ELSE dims]

size(p, dims, v) ==
  LET m == MatchPrefixCapture(PctPrefix, Plus(Class(Digit)), v)
  IN  IF ~validate("size", v) THEN Outcome(p, "InvalidParameter")
      ELSE IF v = W_full \/ v = W_max THEN Outcome(p, "none")
      ELSE IF m.matched THEN _sizePct(p, m.cap, dims)
      ELSE _sizeWH(p, v)

\* rotation with the zero short-circuit taken after the '!' is removed
rotationZeroAfterStrip(p, v) ==
  IF ~validate("rotation", v) THEN Outcome(p, "InvalidParameter")
  ELSE IF StripBang(v) = <<"0">> THEN Outcome(p, "none")
  ELSE LET flopped == IF v[1] = "!" THEN SharpFlop(p) ELSE p
           value   == Number(StripBang(v))
       IN  IF isNaN(value) THEN Outcome(flopped, "InvalidRotation")
           ELSE Outcome(SharpRotate(flopped, value), "none")

rotation(p, v) ==
  IF ~validate("rotation", v) THEN Outcome(p, "InvalidParameter")
  ELSE IF v = <<"0">> THEN Outcome(p, "none")
  ELSE LET flopped == IF v[1] = "!" THEN SharpFlop(p) ELSE p
           value   == Number(StripBang(v))
       IN  IF isNaN(value) THEN Outcome(flopped, "InvalidRotation")
           ELSE Outcome(SharpRotate(flopped, value), "none")

quality(p, v) ==
  IF ~validate("quality", v) THEN Outcome(p, "InvalidParameter")
  ELSE IF v = W_color \/ v = W_default THEN Outcome(p, "none")
  ELSE IF v = W_gray THEN Outcome(SharpGrayscale(p), "none")
  ELSE IF v = W_bitonal THEN Outcome(SharpThreshold(p), "none")
  ELSE Outcome(p, "none")

format(p, v) ==
  IF ~validate("format", v) THEN Outcome(p, "InvalidParameter")
  ELSE Outcome(SharpToFormat(p, v), "none")

-----------------------------------------------------------------------------
(* Inputs                                                                   *)

\* calls made on the interpreter of one request
MaxCalls == 2
\* calls made, in all, on two interpreters that live at the same time
MaxCallsShared == 2
\* longest string handed to validate on its own
MaxLen == 7

S0 == <<"0">>
S10 == <<"1", "0">>
S50 == <<"5", "0">>
S90 == <<"9", "0">>
S50_9 == <<"5", "0", ".", "9">>
S0_9 == <<"0", ".", "9">>
S1_5 == <<"1", ".", "5">>
S1a5 == <<"1", "a", "5">>

Join4(a, b, c, d) == a \o <<",">> \o b \o <<",">> \o c \o <<",">> \o d

RegionInputs ==
  {W_full, W_square, <<"a", "b", "c">>, <<>>, Join4(S0, S0, S0, S50)}
  \cup {Join4(S10, S10, w, h) : w \in {S0, S50}, h \in {S0, S50}}
  \cup {PctPrefix \o Join4(S10, S10, wh[1], wh[2]) :
          wh \in {<<S50, S50>>, <<S50, S50_9>>, <<S50_9, S50>>, <<S0, S50>>, <<S50, S0>>}}
  \cup {PctPrefix \o Join4(<<"1", "0", ".", "5">>, S10, S50, S50),
        PctPrefix \o Join4(S10, S10, S50, <<"5", "0", "a", "5">>)}

SizeInputs ==
  {W_full, W_max, <<"-", "5", ",">>,
   S50 \o <<",">>, <<",">> \o S50, S50 \o <<",">> \o S50, <<"!">> \o S50 \o <<",">> \o S50,
   S0 \o <<",">>,
   PctPrefix \o S50, PctPrefix \o S50_9, PctPrefix \o S0_9, PctPrefix \o S0}

RotationInputs ==
  {<<"a">>, <<>>}
  \cup {b \o f : b \in {<<>>, <<"!">>},
                 f \in {S0, S90, S1_5, <<"0", ".", "0">>, S1a5}}

QualityInputs ==
  {W_color, W_gray, W_bitonal, W_default, <<"p", "u", "r", "p", "l", "e">>}

FormatInputs == {W_jpg, W_webp, <<"b", "m", "p">>}

Dims(w, h) == [width |-> w, height |-> h]

\* source image sizes: landscape, portrait and square, even and odd differences
InitDims == {Dims(200, 100), Dims(103, 100), Dims(100, 103), Dims(100, 100)}

\* new Operations(dims): keeps the reference to the caller's dims object
Operations(ref) == [dims |-> ref, pipeline |-> Sharp]

-----------------------------------------------------------------------------
(* State machine.  heap holds the dims objects, ops the interpreters, last  *)
(* the call just made and how it ended, prev the state before that call.    *)

Init ==
  /\ \E d \in InitDims : heap = (1 :> d)
  /\ ops = (1 :> Operations(1))
  /\ last = [i |-> 0, op |-> "new", v |-> <<>>, err |-> "none"]
  /\ prev = [heap |-> heap, ops |-> ops]
  /\ budget = MaxCalls

\* two interpreters, constructed from the same dims object or from two
InitShared ==
  /\ \E d \in InitDims, shared \in BOOLEAN :
       /\ heap = IF shared THEN (1 :> d) ELSE (1 :> d @@ 2 :> d)
       /\ ops = (1 :> Operations(1) @@ 2 :> Operations(IF shared THEN 1 ELSE 2))
  /\ last = [i |-> 0, op |-> "new", v |-> <<>>, err |-> "none"]
  /\ prev = [heap |-> heap, ops |-> ops]
  /\ budget = MaxCallsShared

Return(i, op, v, out, newHeap) ==
  /\ budget > 0
  /\ budget' = budget - 1
  /\ ops' = [ops EXCEPT ![i].pipeline = out.p]
  /\ heap' = newHeap
  /\ last' = [i |-> i, op |-> op, v |-> v, err |-> out.err]
  /\ prev' = [heap |-> heap, ops |-> ops]

Region(i, v) ==
  LET out == region(ops[i].pipeline, heap[ops[i].dims], v)
  IN  Return(i, "region", v, out, [heap EXCEPT ![ops[i].dims] = out.dims])

Size(i, v) ==
  Return(i, "size", v, size(ops[i].pipeline, heap[ops[i].dims], v), heap)

Rotation(i, v) ==
  Return(i, "rotation", v, rotation(ops[i].pipeline, v), heap)

Quality(i, v) ==
  Return(i, "quality", v, quality(ops[i].pipeline, v), heap)

Format(i, v) ==
  Return(i, "format", v, format(ops[i].pipeline, v), heap)

Next ==
  \/ \E i \in DOMAIN ops, v \in RegionInputs : Region(i, v)
  \/ \E i \in DOMAIN ops, v \in SizeInputs : Size(i, v)
  \/ \E i \in DOMAIN ops, v \in RotationInputs : Rotation(i, v)
  \/ \E i \in DOMAIN ops, v \in QualityInputs : Quality(i, v)
  \/ \E i \in DOMAIN ops, v \in FormatInputs : Format(i, v)

Spec == Init /\ [][Next]_vars

SpecShared == InitShared /\ [][Next]_vars

-----------------------------------------------------------------------------
(* validate on its own: every string of a bounded family, for every kind    *)

\* a digit, the decimal point, the separator, and a character of no grammar
NumChars == {"1", ".", ",", "a"}

NumStrings == UNION {[1..n -> NumChars] : n \in 0..MaxLen}

\* a word, and the word with a character added or missing
Near(w) == {w, w \o <<"a">>, <<"a">> \o w, SubSeq(w, 1, Len(w) - 1), Tail(w)}

Words ==
  UNION {Near(w) : w \in {W_color, W_gray, W_bitonal, W_default, W_jpg, W_tif,
                          W_gif, W_png, W_webp, W_full, W_square, W_max}}

ValidateInputs ==
  Words \cup {pre \o body : pre \in {<<>>, <<"!">>, PctPrefix}, body \in NumStrings}

InitValidate ==
  /\ heap = <<>>
  /\ ops = <<>>
  /\ prev = [heap |-> <<>>, ops |-> <<>>]
  /\ budget = 0
  /\ \E type \in Kinds, v \in ValidateInputs :
       last = [i |-> 0, op |-> type, v |-> v, err |-> "pending"]

Validate ==
  /\ last.err = "pending"
  /\ last' = [last EXCEPT !.err = IF validate(last.op, last.v)
                                  THEN "none" ELSE "InvalidParameter"]
  /\ UNCHANGED <<heap, ops, prev, budget>>

NextValidate == Validate

SpecValidate == InitValidate /\ [][NextValidate]_vars

-----------------------------------------------------------------------------
(* The call just made, seen from the state after it                         *)

Called == last.i \in DOMAIN ops

DirectivesBefore == prev.ops[last.i].pipeline.directives
DirectivesAfter == ops[last.i].pipeline.directives
DimsBefore == prev.heap[prev.ops[last.i].dims]
DimsAfter == heap[ops[last.i].dims]

\* the directives the call appended
Emitted == SubSeq(DirectivesAfter, Len(DirectivesBefore) + 1, Len(DirectivesAfter))

Extract(l, t, w, h) ==
  Directive("extract", <<JsInt(l), JsInt(t), JsInt(w), JsInt(h)>>, "", <<>>)

\* the value of a string of the documented float grammar
FValue(s) ==
  IF \A i \in 1..Len(s) : s[i] # "." THEN JsInt(DigitsValue(s))
  ELSE LET p == CHOOSE i \in 1..Len(s) : s[i] = "."
       IN  Norm(DigitsValue(SubSeq(s, 1, p - 1) \o SubSeq(s, p + 1, Len(s))),
                Pow10(Len(s) - p))

\* round(extent * P / 100) as an integer
PctOf(extent, P) == MathRound(Times(extent, Div100(P))).n

IsPct(v) == Len(v) > 4 /\ SubSeq(v, 1, 4) = PctPrefix
AfterPct(v) == SubSeq(v, 5, Len(v))

-----------------------------------------------------------------------------
(* Claims                                                                   *)

\* C1: a call that ends by raising an error emits no directive and leaves
\* the tracked dims as they were.
C1_FailedCallChangesNothing ==
  (Called /\ last.err # "none") =>
     /\ DirectivesAfter = DirectivesBefore
     /\ DimsAfter = DimsBefore

\* C2: validate accepts a string only if the whole string is in the
\* documented grammar of its kind; every other string is rejected.
C2_AcceptsOnlyDeclaredGrammar ==
  (last.err # "pending" /\ ~InDeclaredGrammar(last.op, last.v))
     => last.err = "InvalidParameter"

\* C3: width and height of the tracked dims are positive in every state,
\* whatever calls were made and however they ended.
C3_DimsPositive ==
  \A i \in DOMAIN ops : heap[ops[i].dims].width > 0 /\ heap[ops[i].dims].height > 0

\* C3 witness: a region call cropped and the tracked dims changed to the crop
C3_Witness ==
  /\ Called /\ last.op = "region" /\ last.err = "none"
  /\ Len(Emitted) = 1
  /\ DimsAfter # DimsBefore

\* C4: calls on one interpreter change neither the tracked dims nor the
\* directives of another interpreter.
C4_NoSharedState ==
  Called =>
    \A j \in DOMAIN ops \ {last.i} :
       /\ heap[ops[j].dims] = prev.heap[prev.ops[j].dims]
       /\ ops[j].pipeline = prev.ops[j].pipeline

\* C5: region on a string of the region grammar emits nothing, or one extract
\* of positive width and height, or fails with the zero-area region error.
C5_RegionEmitsPositiveOrFails ==
  (Called /\ last.op = "region" /\ InDeclaredGrammar("region", last.v)) =>
     \/ last.err = "none" /\ Emitted = <<>>
     \/ /\ last.err = "none"
        /\ Len(Emitted) = 1
        /\ Emitted[1].op = "extract"
        /\ \A k \in {3, 4} : /\ Emitted[1].args[k].t = "num"
                             /\ Emitted[1].args[k].n > 0
     \/ last.err = "InvalidRegion" /\ Emitted = <<>>

\* C6: a successful rotation(v), v of the rotation grammar, emits nothing for
\* '0' and otherwise rotate(value of v without '!'), preceded by one flop
\* exactly when v begins with '!'.
C6_RotationDirectives ==
  (Called /\ last.op = "rotation" /\ last.err = "none"
     /\ InDeclaredGrammar("rotation", last.v)) =>
     Emitted =
       IF last.v = <<"0">> THEN <<>>
       ELSE (IF last.v[1] = "!" THEN <<Directive("flop", <<>>, "", <<>>)>> ELSE <<>>)
            \o <<Directive("rotate", <<FValue(StripBang(last.v))>>, "", <<>>)>>

\* C6 witness: a mirrored rotation went through, flop then rotate
C6_Witness ==
  /\ Called /\ last.op = "rotation" /\ last.err = "none"
  /\ last.v[1] = "!"
  /\ Len(Emitted) = 2

\* C7: after a successful region call the tracked dims are the emitted
\* extract's width and height, or unchanged when nothing was emitted; size,
\* rotation, quality and format never change the dims.
C7_DimsFollowCrop ==
  Called =>
    /\ (last.op = "region" /\ last.err = "none") =>
          IF Emitted = <<>> THEN DimsAfter = DimsBefore
          ELSE /\ Emitted[1].op = "extract"
               /\ JsInt(DimsAfter.width) = Emitted[1].args[3]
               /\ JsInt(DimsAfter.height) = Emitted[1].args[4]
    /\ last.op # "region" => DimsAfter = DimsBefore

\* C8: region('square') emits nothing on a square image and otherwise one
\* extract of side min(width, height) at offset floor(|width - height| / 2),
\* along the longer axis.
C8_SquareCentered ==
  (Called /\ last.op = "region" /\ last.v = W_square) =>
     LET w      == DimsBefore.width
         h      == DimsBefore.height
         side   == Min(w, h)
         offset == Abs(w - h) \div 2
     IN  /\ last.err = "none"
         /\ Emitted = IF w = h THEN <<>>
                      ELSE IF w > h THEN <<Extract(offset, 0, side, side)>>
                      ELSE <<Extract(0, offset, side, side)>>

\* C9: region('pct:X,Y,W,H') rounds width*X/100, height*Y/100, width*W/100,
\* height*H/100 from the four full decimals, fails with the zero-area error
\* when w or h is 0 and otherwise emits extract(x, y, w, h).
C9_PctRegionFromFullDecimals ==
  (Called /\ last.op = "region" /\ IsPct(last.v)
     /\ InDeclaredGrammar("region", last.v)) =>
     LET parts == Split(AfterPct(last.v))
         x     == PctOf(DimsBefore.width, FValue(parts[1]))
         y     == PctOf(DimsBefore.height, FValue(parts[2]))
         w     == PctOf(DimsBefore.width, FValue(parts[3]))
         h     == PctOf(DimsBefore.height, FValue(parts[4]))
     IN  IF w = 0 \/ h = 0
         THEN last.err = "InvalidRegion" /\ Emitted = <<>>
         ELSE last.err = "none" /\ Emitted = <<Extract(x, y, w, h)>>

\* C10: size('pct:P') fails with the size error exactly when P is not
\* positive or round(width*P/100) is 0, and otherwise emits one resize of
\* that width, no height, fit cover, from the current tracked width.
C10_PctSizeFromFullDecimal ==
  (Called /\ last.op = "size" /\ IsPct(last.v)
     /\ InDeclaredGrammar("size", last.v)) =>
     LET P     == FValue(AfterPct(last.v))
         width == PctOf(DimsBefore.width, P)
     IN  IF P.n <= 0 \/ width = 0
         THEN last.err = "InvalidSize" /\ Emitted = <<>>
         ELSE /\ last.err = "none"
              /\ Emitted = <<Directive("resize", <<JsInt(width), Null>>, "cover", <<>>)>>

=============================================================================
